---------------------------- MODULE Spec2Model ----------------------------
(***************************************************************************)
(* A model of extract_perf_grid_search.py: the best (fastest) grid-search  *)
(* configuration per MRR cut.                                              *)
(*                                                                         *)
(* Representation.                                                         *)
(*   - A cell of the TSV file and every other Python str the program       *)
(*     parses or formats is a sequence of one-character strings:           *)
(*     "0.41" is <<"0", ".", "4", "1">>.  Column names are never parsed    *)
(*     and stay TLA+ strings.                                              *)
(*   - A Python float is a record [nan, v]: nan says whether it is the     *)
(*     IEEE not-a-number, v is the value in units of 10^-6 (the program    *)
(*     formats cuts with six decimals, and every number of the model has   *)
(*     at most six).  Every comparison with a NaN is false.                *)
(*   - A dict is a function from its keys; a list is a sequence.           *)
(***************************************************************************)
EXTENDS Integers, Sequences, FiniteSets, TLC

VARIABLES
    header,       \* main: header, the input file's column names, in order
    rows,         \* main: rows, the input file's rows (dicts column -> cell)
    args,         \* main: args, the parsed command line
    pc,           \* the position of main
    steps,        \* main: steps, the length of the default cut sequence
    cuts,         \* main: cuts, the cuts to evaluate
    bests,        \* the value of `best` for each cut evaluated so far:
                  \* the 1-based index of the returned row in rows, 0 for None
    results,      \* main: results
    out_opened,   \* whether open(args.output, "w") was called
    out_header,   \* the header line written to the output target (<<>>: none)
    out_rows,     \* the data lines written to the output target
    exit_status   \* the process's exit status, -1 while it runs

vars == <<header, rows, args, pc, steps, cuts, bests, results,
          out_opened, out_header, out_rows, exit_status>>

---------------------------------------------------------------------------
(* Bounds of the model. *)

\* The input file has at most MaxRows rows (main specification).
MaxRows == 2

\* At most MaxCuts values follow --cuts.
MaxCuts == 3

\* The selector is applied to at most SelMaxRows rows (selector specification).
SelMaxRows == 3

---------------------------------------------------------------------------
(* Floats. *)

\* 10^6: the model's floats count millionths.
Scale == 10^6

NaN == [nan |-> TRUE, v |-> 0]

Num(n) == [nan |-> FALSE, v |-> n]

\* Python's a < b, a <= b, a >= b, a == b on floats: false when either is NaN.
Lt(a, b) == ~a.nan /\ ~b.nan /\ a.v < b.v

Le(a, b) == ~a.nan /\ ~b.nan /\ a.v <= b.v

Ge(a, b) == ~a.nan /\ ~b.nan /\ a.v >= b.v

FEq(a, b) == ~a.nan /\ ~b.nan /\ a.v = b.v

\* Python's round(x) of a float to an int, with x given as the fraction n/d
\* (d > 0): to the nearest, a tie to the even one.
RoundHalfEven(n, d) ==
    LET q == n \div d
        r == n % d
    IN  IF 2 * r < d THEN q
        ELSE IF 2 * r > d THEN q + 1
        ELSE IF q % 2 = 0 THEN q ELSE q + 1

\* The error of one floating-point operation on the program's values is far
\* below 10^-9; a result is its exact value in units of 10^-9 plus a drift
\* of at most one unit, of either sign.
Drift == {-1, 0, 1}

---------------------------------------------------------------------------
(* Strings: parsing and formatting. *)

Digits == <<"0", "1", "2", "3", "4", "5", "6", "7", "8", "9">>

IsDigit(c) == \E i \in 1..10 : Digits[i] = c

DigitVal(c) == (CHOOSE i \in 1..10 : Digits[i] = c) - 1

\* The value of a sequence of digits, most significant first.
RECURSIVE DigitsVal(_)
DigitsVal(s) ==
    IF s = <<>> THEN 0
    ELSE 10 * DigitsVal(SubSeq(s, 1, Len(s) - 1)) + DigitVal(s[Len(s)])

\* 10^k.
Pow10(k) == 10^k

\* The position of the first "." of s, Len(s) + 1 when it has none.
DotAt(s) ==
    IF \E i \in 1..Len(s) : s[i] = "."
    THEN CHOOSE i \in 1..Len(s) : s[i] = "." /\ \A j \in 1..(i - 1) : s[j] # "."
    ELSE Len(s) + 1

\* s without a leading sign.
Unsigned(s) ==
    IF s # <<>> /\ s[1] \in {"-", "+"} THEN SubSeq(s, 2, Len(s)) ELSE s

\* Whether float(s) accepts s as a plain decimal: an optional sign, digits, and
\* optionally a point and digits, with a digit on at least one side of the
\* point.  (The strings of the model carry at most six decimals.)
IsDecimal(s) ==
    LET u == Unsigned(s)
        d == DotAt(u)
        ip == SubSeq(u, 1, d - 1)
        fp == SubSeq(u, d + 1, Len(u))
    IN  /\ \A i \in 1..Len(ip) : IsDigit(ip[i])
        /\ \A i \in 1..Len(fp) : IsDigit(fp[i])
        /\ Len(ip) + Len(fp) > 0
        /\ Len(fp) <= 6

\* float(s) of a plain decimal, in millionths.
ParseDecimal(s) ==
    LET u == Unsigned(s)
        d == DotAt(u)
        ip == SubSeq(u, 1, d - 1)
        fp == SubSeq(u, d + 1, Len(u))
        mag == DigitsVal(ip) * Scale + DigitsVal(fp) * Pow10(6 - Len(fp))
    IN  IF s[1] = "-" THEN -mag ELSE mag

\* to_float_safe: float(s), and NaN when float raises.  The literal "nan",
\* which float accepts, gives NaN as well.
to_float_safe(s) ==
    IF IsDecimal(s) THEN Num(ParseDecimal(s)) ELSE NaN

\* The decimal digits of n >= 0, most significant first, at least one.
RECURSIVE NatDigits(_)
NatDigits(n) ==
    IF n < 10 THEN <<Digits[n + 1]>>
    ELSE Append(NatDigits(n \div 10), Digits[(n % 10) + 1])

\* The six digits of a fraction f, 0 <= f < 10^6, zero-padded on the left.
SixDigits(f) == [i \in 1..6 |-> Digits[((f \div Pow10(6 - i)) % 10) + 1]]

\* f"{cut:.6f}".
Format6(x) ==
    IF x.nan THEN <<"n", "a", "n">>
    ELSE LET a == IF x.v < 0 THEN -x.v ELSE x.v
         IN  (IF x.v < 0 THEN <<"-">> ELSE <<>>)
             \o NatDigits(a \div Scale) \o <<".">> \o SixDigits(a % Scale)

---------------------------------------------------------------------------
(* Dicts and lists. *)

\* d.get(k, dflt).
Get(d, k, dflt) == IF k \in DOMAIN d THEN d[k] ELSE dflt

\* d[k] = x on a copy of d.
Put(d, k, x) == [c \in (DOMAIN d) \cup {k} |-> IF c = k THEN x ELSE d[c]]

\* k in s, for a list s.
InList(k, s) == \E i \in 1..Len(s) : s[i] = k

\* The sequences over S of length at most n.
SeqsUpTo(S, n) == UNION {[1..k -> S] : k \in 0..n}

\* The literal "nan", the default of r.get in the selector.
NanStr == <<"n", "a", "n">>

\* The marker of a placeholder row.
Slash == <<"/">>

---------------------------------------------------------------------------
(* select_best_for_cut. *)

\* Qualifies with the strict comparison the comment of the filter speaks of.
QualifiesStrict(r, mrr_col, cut) ==
    LET m == to_float_safe(Get(r, mrr_col, NanStr))
    IN  ~m.nan /\ ~cut.nan /\ m.v > cut.v

\* The filter's condition on a row r: to_float_safe(r.get(mrr_col, "nan")) >= cut.
Qualifies(r, mrr_col, cut) == Ge(to_float_safe(Get(r, mrr_col, NanStr)), cut)

\* filtered, as the indices in rs of the rows kept, in input order.
RECURSIVE Filtered(_, _, _, _)
Filtered(rs, mrr_col, cut, i) ==
    IF i > Len(rs) THEN <<>>
    ELSE (IF Qualifies(rs[i], mrr_col, cut) THEN <<i>> ELSE <<>>)
         \o Filtered(rs, mrr_col, cut, i + 1)

\* The key of min: to_float_safe(r.get(time_col, "nan")).
TimeKey(r, time_col) == to_float_safe(Get(r, time_col, NanStr))

\* Python's min over a non-empty list of keys, as the position it returns: the
\* scan keeps the first item and replaces it by a later one only when that
\* one's key is < the kept one's key.
RECURSIVE MinScan(_, _, _)
MinScan(keys, i, best) ==
    IF i > Len(keys) THEN best
    ELSE MinScan(keys, i + 1, IF Lt(keys[i], keys[best]) THEN i ELSE best)

\* The scan with its comparison turned around: the position of a maximum.
RECURSIVE MaxScan(_, _, _)
MaxScan(keys, i, best) ==
    IF i > Len(keys) THEN best
    ELSE MaxScan(keys, i + 1, IF Lt(keys[best], keys[i]) THEN i ELSE best)

PyMaxPos(keys) == MaxScan(keys, 2, 1)

PyMinPos(keys) == MinScan(keys, 2, 1)

\* select_best_for_cut, as the 1-based index in rs of the row it returns,
\* 0 for None.
select_best_for_cut(rs, mrr_col, time_col, cut) ==
    LET filtered == Filtered(rs, mrr_col, cut, 1)
        keys == [j \in 1..Len(filtered) |-> TimeKey(rs[filtered[j]], time_col)]
    IN  IF filtered = <<>> THEN 0 ELSE filtered[PyMinPos(keys)]

---------------------------------------------------------------------------
(* sorted(set(args.cuts)). *)

\* A list kept as it is, duplicates included.
DedupNone(cs) == cs

\* The elements of set(cs), in the order of cs: a float equal to an earlier
\* one is dropped; a NaN equals nothing, and each NaN parsed from the command
\* line is an object of its own, so every NaN stays.
RECURSIVE Dedup(_)
Dedup(cs) ==
    IF cs = <<>> THEN <<>>
    ELSE LET n == Len(cs)
             front == Dedup(SubSeq(cs, 1, n - 1))
         IN  IF \E i \in 1..(n - 1) : FEq(cs[i], cs[n]) THEN front
             ELSE Append(front, cs[n])

\* The orders in which a set holding the elements of cs may be iterated: the
\* order follows the hashes, and a NaN's hash is its address.
SetOrders(cs) ==
    LET d == Dedup(cs)
    IN  {[i \in 1..Len(d) |-> d[f[i]]] : f \in Permutations(1..Len(d))}

\* count_run of list.sort: the length of the run a starts with, and whether it
\* is descending (each element < the one before) or not.
RunDescending(a) == Lt(a[2], a[1])

RunLen(a) ==
    LET n == Len(a)
        Step(i) == IF RunDescending(a) THEN Lt(a[i], a[i - 1])
                   ELSE ~Lt(a[i], a[i - 1])
    IN  CHOOSE k \in 2..n :
            /\ \A i \in 3..k : Step(i)
            /\ k = n \/ ~Step(k + 1)

Reverse(s) == [i \in 1..Len(s) |-> s[Len(s) + 1 - i]]

\* binarysort's search: the place (0-based) of pivot among a[l..r-1], sorted.
RECURSIVE BSearch(_, _, _, _)
BSearch(a, pivot, l, r) ==
    IF l >= r THEN l
    ELSE LET p == l + ((r - l) \div 2)
         IN  IF Lt(pivot, a[p + 1]) THEN BSearch(a, pivot, l, p)
             ELSE BSearch(a, pivot, p + 1, r)

\* binarysort: a's first `start` elements are sorted; insert the others.
RECURSIVE BinarySort(_, _)
BinarySort(a, start) ==
    IF start >= Len(a) THEN a
    ELSE LET pivot == a[start + 1]
             l == BSearch(a, pivot, 0, start)
         IN  BinarySort(SubSeq(a, 1, l) \o <<pivot>> \o SubSeq(a, l + 1, start)
                            \o SubSeq(a, start + 2, Len(a)),
                        start + 1)

\* sorted(a) for a list shorter than list.sort's minimal run length (64): the
\* initial run, reversed if descending, then binary insertion; every
\* comparison is <.
PySorted(a) ==
    IF Len(a) < 2 THEN a
    ELSE LET k == RunLen(a)
             b == IF RunDescending(a)
                  THEN Reverse(SubSeq(a, 1, k)) \o SubSeq(a, k + 1, Len(a))
                  ELSE a
         IN  BinarySort(b, k)

\* The values cuts may take at `cuts = sorted(set(args.cuts))`.
SortedSet(cs) == {PySorted(p) : p \in SetOrders(cs)}

---------------------------------------------------------------------------
(* The inputs of the model. *)

\* The default names of the MRR and time columns (parse_args).
MrrCol == "mrr@10"

TimeCol == "avg_query_time_ns"

\* The headers of the input files: a complete one, one that has a mrr_cut
\* column (such as an output of this program), and two that lack a column.
Headers ==
    { <<"k", TimeCol, MrrCol>>,
      <<"mrr_cut", TimeCol, MrrCol>>,
      <<"k", MrrCol>>,
      <<"k", TimeCol>> }

\* The cells a column holds in the input files of the main specification.
CellsOf(col) ==
    CASE col = MrrCol  -> { <<"0", ".", "3", "9", "5">>, <<"0", ".", "4", "1">> }
      [] col = TimeCol -> { <<"5", "0">> }
      [] col = "mrr_cut" -> { <<"0", ".", "3">> }
      [] OTHER -> { <<"7">> }

ColsOf(h) == {h[i] : i \in 1..Len(h)}

\* The rows csv.DictReader gives for header h: one cell per column.
RowsOf(h) ==
    {r \in [ColsOf(h) -> UNION {CellsOf(c) : c \in ColsOf(h)}] :
        \A c \in ColsOf(h) : r[c] \in CellsOf(c)}

\* The floats given after --cuts.
CutArgVals == {Num(410000), Num(500000), NaN}

\* args.cuts: None without --cuts (given is FALSE), else the list of values.
CutArgs ==
    {[given |-> FALSE, vals |-> <<>>]}
        \cup {[given |-> TRUE, vals |-> cs] : cs \in SeqsUpTo(CutArgVals, MaxCuts)}

\* `if args.cuts:` is false for None and for an empty list.
Truthy(c) == c.given /\ c.vals # <<>>

\* The command lines: args.output is "" for None.
ArgsSet ==
    [cuts : CutArgs, output : {"", "out.tsv"},
     mrr_col : {MrrCol}, time_col : {TimeCol, "mrr_cut"}]

\* The cells of the rows the selector specification draws.
SelMrrCells == { <<"0", ".", "4", "0">>, <<"0", ".", "4", "1">>, <<"x">> }

SelTimeCells == { <<"5", "0">>, <<"8", "0">>, <<"x">> }

SelRows ==
    {[c \in {"k", TimeCol, MrrCol} |->
        IF c = MrrCol THEN m ELSE IF c = TimeCol THEN t ELSE <<"7">>] :
        m \in SelMrrCells, t \in SelTimeCells}

\* The cuts the selector specification draws.
SelCuts == {Num(400000), Num(410000), NaN}

---------------------------------------------------------------------------
(* main. *)

\* start, end and step of the default cuts, in millionths.
start == 390000

end == 404000

step == 1000

Init ==
    /\ header \in Headers
    /\ rows \in SeqsUpTo(RowsOf(header), MaxRows)
    /\ args \in ArgsSet
    /\ pc = "validate"
    /\ steps = 0
    /\ cuts = <<>>
    /\ bests = <<>>
    /\ results = <<>>
    /\ out_opened = FALSE
    /\ out_header = <<>>
    /\ out_rows = <<>>
    /\ exit_status = -1

\* The column validation: sys.exit(2) when a column is not in the header.
\* The validation with the check of the time column left out.
ColumnsPresentMrrOnly == InList(args.mrr_col, header)

ColumnsPresent == InList(args.mrr_col, header) /\ InList(args.time_col, header)

Validate ==
    /\ pc = "validate"
    /\ \/ /\ ~ColumnsPresent
          /\ exit_status' = 2
          /\ pc' = "exit"
       \/ /\ ColumnsPresent
          /\ exit_status' = exit_status
          /\ pc' = "cuts"
    /\ UNCHANGED <<header, rows, args, steps, cuts, bests, results,
                   out_opened, out_header, out_rows>>

\* if args.cuts: cuts = sorted(set(args.cuts))
ExplicitCuts ==
    /\ pc = "cuts"
    /\ Truthy(args.cuts)
    /\ cuts' \in SortedSet(args.cuts.vals)
    /\ pc' = "loop"
    /\ UNCHANGED <<header, rows, args, steps, bests, results,
                   out_opened, out_header, out_rows, exit_status>>

\* The step count without the + 1 that makes the sequence inclusive.
DefaultStepCountExclusive(d) == RoundHalfEven(((end - start) * 1000) \div step + d, 1000)

\* int(round((end - start) / step)) + 1, the quotient in thousandths.
DefaultStepCount(d) == RoundHalfEven(((end - start) * 1000) \div step + d, 1000) + 1

\* else: start, end, step, steps
DefaultSteps ==
    /\ pc = "cuts"
    /\ ~Truthy(args.cuts)
    /\ \E d \in Drift : steps' = DefaultStepCount(d)
    /\ pc' = "gen"
    /\ UNCHANGED <<header, rows, args, cuts, bests, results,
                   out_opened, out_header, out_rows, exit_status>>

\* round(start + i * step, 6), the sum in units of 10^-9.
DefaultCut(i, d) == Num(RoundHalfEven((start + i * step) * 1000 + d, 1000))

\* One element of [round(start + i * step, 6) for i in range(0, steps)].
GenCut ==
    /\ pc = "gen"
    /\ Len(cuts) < steps
    /\ \E d \in Drift : cuts' = Append(cuts, DefaultCut(Len(cuts), d))
    /\ pc' = IF Len(cuts) + 1 = steps THEN "loop" ELSE "gen"
    /\ UNCHANGED <<header, rows, args, steps, bests, results,
                   out_opened, out_header, out_rows, exit_status>>

\* The placeholder row of a cut no row satisfies.
Placeholder(cut) ==
    LET empty_row == [k \in ColsOf(header) |-> Slash]
    IN  Put(Put(empty_row, "mrr_cut", Format6(cut)), args.time_col, Slash)

\* The result row of a cut with best row `best`.
Matched(best, cut) == Put(best, "mrr_cut", Format6(cut))

\* One iteration of `for cut in cuts`.
LoopIter ==
    /\ pc = "loop"
    /\ Len(results) < Len(cuts)
    /\ LET cut == cuts[Len(results) + 1]
           best == select_best_for_cut(rows, args.mrr_col, args.time_col, cut)
       IN  /\ bests' = Append(bests, best)
           /\ results' = Append(results,
                                IF best = 0 THEN Placeholder(cut)
                                ELSE Matched(rows[best], cut))
    /\ pc' = IF Len(results) + 1 = Len(cuts) THEN "open" ELSE "loop"
    /\ UNCHANGED <<header, rows, args, steps, cuts,
                   out_opened, out_header, out_rows, exit_status>>

\* out_header = ["mrr_cut"] + header
OutHeader == <<"mrr_cut">> \o header

\* if args.output: out_f = open(args.output, "w") else: out_f = sys.stdout
OpenOutput ==
    /\ pc = "open"
    /\ out_opened' = (args.output # "")
    /\ pc' = "write_header"
    /\ UNCHANGED <<header, rows, args, steps, cuts, bests, results,
                   out_header, out_rows, exit_status>>

\* writer.writeheader()
WriteHeader ==
    /\ pc = "write_header"
    /\ out_header' = OutHeader
    /\ pc' = "write_rows"
    /\ UNCHANGED <<header, rows, args, steps, cuts, bests, results,
                   out_opened, out_rows, exit_status>>

\* The line writer.writerow writes for result r: r.get(k, "") for each k of
\* out_header.
OutLine(r) == [i \in 1..Len(OutHeader) |-> Get(r, OutHeader[i], <<>>)]

\* One iteration of `for r in results`.
WriteRow ==
    /\ pc = "write_rows"
    /\ Len(out_rows) < Len(results)
    /\ out_rows' = Append(out_rows, OutLine(results[Len(out_rows) + 1]))
    /\ pc' = IF Len(out_rows) + 1 = Len(results) THEN "close" ELSE "write_rows"
    /\ UNCHANGED <<header, rows, args, steps, cuts, bests, results,
                   out_opened, out_header, exit_status>>

\* if args.output: out_f.close(); main returns and the process exits with 0.
Close ==
    /\ pc = "close"
    /\ exit_status' = 0
    /\ pc' = "done"
    /\ UNCHANGED <<header, rows, args, steps, cuts, bests, results,
                   out_opened, out_header, out_rows>>

Next ==
    \/ Validate
    \/ ExplicitCuts
    \/ DefaultSteps
    \/ GenCut
    \/ LoopIter
    \/ OpenOutput
    \/ WriteHeader
    \/ WriteRow
    \/ Close

Spec == Init /\ [][Next]_vars

---------------------------------------------------------------------------
(* The selector alone: select_best_for_cut applied to drawn rows and cuts. *)

InitSelect ==
    /\ header = <<"k", TimeCol, MrrCol>>
    /\ rows \in SeqsUpTo(SelRows, SelMaxRows)
    /\ args = [cuts |-> [given |-> FALSE, vals |-> <<>>], output |-> "",
               mrr_col |-> MrrCol, time_col |-> TimeCol]
    /\ pc = "select"
    /\ steps = 0
    /\ cuts \in [1..2 -> SelCuts]
    /\ bests = <<>>
    /\ results = <<>>
    /\ out_opened = FALSE
    /\ out_header = <<>>
    /\ out_rows = <<>>
    /\ exit_status = -1

\* best = select_best_for_cut(rows, args.mrr_col, args.time_col, cut)
Select ==
    /\ pc = "select"
    /\ Len(bests) < Len(cuts)
    /\ bests' = Append(bests, select_best_for_cut(rows, args.mrr_col, args.time_col,
                                                  cuts[Len(bests) + 1]))
    /\ UNCHANGED <<header, rows, args, pc, steps, cuts, results,
                   out_opened, out_header, out_rows, exit_status>>

NextSelect == Select

SpecSelect == InitSelect /\ [][NextSelect]_vars

---------------------------------------------------------------------------
(* The vocabulary of the properties. *)

\* The parsed MRR and the parsed time of row j of the input.
ParsedMrr(j) == to_float_safe(rows[j][args.mrr_col])

ParsedTime(j) == to_float_safe(rows[j][args.time_col])

\* Row j has a parsed MRR >= cut c.
MeetsCut(j, c) == ~ParsedMrr(j).nan /\ ~c.nan /\ ParsedMrr(j).v >= c.v

\* The rows of the input that meet cut c.
Meeting(c) == {j \in 1..Len(rows) : MeetsCut(j, c)}

\* Those of them whose time parses as a number.
MeetingTimed(c) == {j \in Meeting(c) : ~ParsedTime(j).nan}

AllTimesParse == \A j \in 1..Len(rows) : ~ParsedTime(j).nan

\* The cuts evaluated so far, by position.
Evaluated == 1..Len(bests)

\* The default cut generation has run: no usable --cuts, and cuts is complete.
DefaultCutsMade ==
    ~Truthy(args.cuts) /\ pc \in {"loop", "open", "write_header", "write_rows", "close", "done"}

\* The explicit cuts were taken: a non-empty --cuts list, and cuts is set.
ExplicitCutsMade ==
    Truthy(args.cuts) /\ pc \in {"loop", "open", "write_header", "write_rows", "close", "done"}

\* A column name is absent from the input header.
MissingColumn ==
    \/ \A i \in 1..Len(header) : header[i] # args.mrr_col
    \/ \A i \in 1..Len(header) : header[i] # args.time_col

---------------------------------------------------------------------------
(* The properties. *)

C2_UnparsableTimeNeverSelected ==
    \A i \in Evaluated :
        (bests[i] # 0 /\ ParsedTime(bests[i]).nan) => MeetingTimed(cuts[i]) = {}

\* C3 as stated: the default cut generation produces exactly 16 values.
C3_SixteenDefaultCuts == DefaultCutsMade => Len(cuts) = 16

\* C3 as amended: the default cut generation produces exactly 15 values,
\* 0.390000, 0.391000, ..., 0.404000: the inclusive arithmetic sequence from
\* 0.39 to 0.404 with step 0.001.
C3_FifteenDefaultCuts ==
    DefaultCutsMade =>
        /\ cuts = [i \in 1..15 |-> Num(390000 + (i - 1) * 1000)]
        /\ Format6(cuts[1]) = <<"0", ".", "3", "9", "0", "0", "0", "0">>
        /\ Format6(cuts[Len(cuts)]) = <<"0", ".", "4", "0", "4", "0", "0", "0">>

\* C3's case: a run without --cuts has generated its cuts.
C3_Witness == ~args.cuts.given /\ pc = "loop" /\ rows # <<>>

\* C4: for an input that passes the column validation, the output has one
\* data row per cut, and the i-th output row carries the label of the i-th
\* cut, matched or placeholder.
C4_OneLabelledRowPerCut ==
    pc = "done" =>
        /\ Len(out_rows) = Len(cuts)
        /\ \A i \in 1..Len(out_rows) : out_rows[i][1] = Format6(cuts[i])

\* C5: a cut that no row satisfies yields a placeholder output row in which
\* every column of the input header has the value "/" and the mrr_cut field
\* holds the cut formatted to 6 decimal places, and the run exits with 0.
C5_PlaceholderRow ==
    /\ \A i \in 1..Len(out_rows) :
        bests[i] = 0 =>
            /\ \A p \in 1..Len(header) : out_rows[i][p + 1] = Slash
            /\ out_rows[i][1] = Format6(cuts[i])
    /\ pc = "done" => exit_status = 0

\* C6: if the MRR or the time column name is absent from the input header, the
\* run ends with exit status 2 before the selector processes any row and
\* before anything is written; the output file is never opened.
C6_MissingColumnExits2 ==
    MissingColumn =>
        /\ pc \in {"validate", "exit"}
        /\ pc = "exit" => exit_status = 2
        /\ pc = "validate" => exit_status = -1
        /\ cuts = <<>> /\ bests = <<>> /\ results = <<>>
        /\ ~out_opened /\ out_header = <<>> /\ out_rows = <<>>

\* C6's case: a run on a non-empty file with -o has ended for a missing column.
C6_Witness ==
    MissingColumn /\ pc = "exit" /\ rows # <<>> /\ args.output # ""

\* C7: when --cuts is omitted, the cuts evaluated are the unique values of the
\* MRR column of the input file, sorted ascending.
C7_DefaultCutsAreFileMrrValues ==
    (~args.cuts.given /\ pc \in {"loop", "open", "write_header", "write_rows", "close", "done"}) =>
        /\ {cuts[i] : i \in 1..Len(cuts)} = {ParsedMrr(j) : j \in 1..Len(rows)}
        /\ \A i, j \in 1..Len(cuts) : i < j => Lt(cuts[i], cuts[j])

\* C8: when several qualifying rows share the same minimal parsed time,
\* select_best_for_cut returns the one that occurs first in input order.
C8_TieReturnsFirst ==
    \A i \in Evaluated :
        LET timed == MeetingTimed(cuts[i])
            fastest == {j \in timed : \A k \in timed : ParsedTime(j).v <= ParsedTime(k).v}
        IN  Cardinality(fastest) >= 2 =>
                /\ bests[i] \in fastest
                /\ \A j \in fastest : bests[i] <= j

\* C9 as stated: with a non-empty --cuts list the cuts evaluated are the
\* distinct supplied values in ascending order, whatever the values on the
\* command line: every supplied value is evaluated, none twice, and no cut is
\* smaller than one evaluated before it.
C9_ExplicitCutsAscending ==
    ExplicitCutsMade =>
        /\ {cuts[i] : i \in 1..Len(cuts)} = {args.cuts.vals[i] : i \in 1..Len(args.cuts.vals)}
        /\ \A i, j \in 1..Len(cuts) : i < j => (cuts[i] # cuts[j] /\ ~Lt(cuts[j], cuts[i]))

\* C9 as amended: with a non-empty --cuts list none of whose values is NaN,
\* the cuts evaluated are the distinct supplied values in strictly ascending
\* order, and the i-th evaluation is that of the i-th cut.
C9_ExplicitCutsAscendingNoNaN ==
    (ExplicitCutsMade /\ \A i \in 1..Len(args.cuts.vals) : ~args.cuts.vals[i].nan) =>
        /\ {cuts[i] : i \in 1..Len(cuts)} = {args.cuts.vals[i] : i \in 1..Len(args.cuts.vals)}
        /\ \A i, j \in 1..Len(cuts) : i < j => Lt(cuts[i], cuts[j])
        /\ \A i \in Evaluated :
            bests[i] = select_best_for_cut(rows, args.mrr_col, args.time_col, cuts[i])
        /\ Len(out_rows) <= Len(cuts)

\* C9's case: a run has ended whose --cuts values were given in descending
\* order and with a repetition.
C9_Witness ==
    /\ pc = "done"
    /\ Len(args.cuts.vals) = 3
    /\ Lt(args.cuts.vals[2], args.cuts.vals[1])
    /\ args.cuts.vals[3] = args.cuts.vals[1]
    /\ Len(cuts) = 2
    /\ Len(out_rows) = Len(cuts)

\* C10: on a fixed row list, for cuts c1 <= c2: if c1 yields no match then c2
\* yields no match; and when every row's time parses and both match, the
\* parsed time of the row selected for c1 is <= that of the row selected for c2.
C10_MonotoneInCut ==
    \A i, j \in Evaluated :
        Le(cuts[i], cuts[j]) =>
            /\ bests[i] = 0 => bests[j] = 0
            /\ (AllTimesParse /\ bests[i] # 0 /\ bests[j] # 0) =>
                ParsedTime(bests[i]).v <= ParsedTime(bests[j]).v

\* C10's case: every time parses, two cuts c1 < c2 both match, and the row
\* selected for c1 is strictly faster than the row selected for c2.
C10_Witness ==
    \E i, j \in Evaluated :
        /\ AllTimesParse
        /\ Lt(cuts[i], cuts[j])
        /\ bests[i] # 0 /\ bests[j] # 0
        /\ ParsedTime(bests[i]).v < ParsedTime(bests[j]).v

===========================================================================
